---- MODULE Spec2Model ----
(***************************************************************************)
(* Model of static/script.js: the CSV missing-value cleaner.               *)
(*                                                                         *)
(* JavaScript strings are sequences of one-character strings.  A table     *)
(* cell is a tagged value: [t |-> "s", v |-> chars] for a string and       *)
(* [t |-> "n", v |-> k] for a number, k counting ten-thousandths (the      *)
(* precision line 370 rounds to).  null and undefined are the records      *)
(* Null and Undefined.                                                     *)
(***************************************************************************)
EXTENDS Integers, Sequences, FiniteSets, TLC

\* ------------------------------------------------------------------------
\* Bounds of the model
\* ------------------------------------------------------------------------
MaxReads == 2
MaxTimers == 2
MaxRows == 2
MaxModeRows == 5
MaxBlank == 3

\* ------------------------------------------------------------------------
\* JavaScript values
\* ------------------------------------------------------------------------
Null == [js |-> "null"]
Undefined == [js |-> "undefined"]

S(chars) == [t |-> "s", v |-> chars]
N(k) == [t |-> "n", v |-> k]
EmptyStr == S(<<>>)

Scale == 10000

Digits == <<"0", "1", "2", "3", "4", "5", "6", "7", "8", "9">>

IsDigit(c) == \E i \in 1..10 : Digits[i] = c
DigitVal(c) == (CHOOSE i \in 1..10 : Digits[i] = c) - 1

IsSpace(c) == c \in {" ", "\t", "\r", "\n"}

\* \w of the regular expressions, over the characters the model uses
IsWordChar(c) == IsDigit(c) \/ c \in {"a", "b", "c", "d", "e", "f", "l", "n", "p", "s", "t", "v", "x", "y", "u", "i", "_", "A", "C", "S", "T", "V", "X"}

ToLower(c) == CASE c = "A" -> "a" [] c = "C" -> "c" [] c = "S" -> "s" [] c = "T" -> "t" [] c = "V" -> "v" [] c = "X" -> "x" [] OTHER -> c

RECURSIVE TrimStart(_)
TrimStart(s) == IF s # <<>> /\ IsSpace(Head(s)) THEN TrimStart(Tail(s)) ELSE s

RECURSIVE TrimEnd(_)
TrimEnd(s) == IF s # <<>> /\ IsSpace(s[Len(s)]) THEN TrimEnd(SubSeq(s, 1, Len(s) - 1)) ELSE s

Trim(s) == TrimEnd(TrimStart(s))

\* String.prototype.split('\n')
RECURSIVE SplitFrom(_, _, _)
SplitFrom(s, i, cur) == IF i > Len(s) THEN <<cur>> ELSE IF s[i] = "\n" THEN <<cur>> \o SplitFrom(s, i + 1, <<>>) ELSE SplitFrom(s, i + 1, Append(cur, s[i]))

Split(s) == SplitFrom(s, 1, <<>>)

\* .filter(line => line.trim() !== '')
RECURSIVE NonBlank(_)
NonBlank(q) == IF q = <<>> THEN <<>> ELSE IF Trim(Head(q)) # <<>> THEN <<Head(q)>> \o NonBlank(Tail(q)) ELSE NonBlank(Tail(q))

\* Array.prototype.join(sep) over strings
RECURSIVE Join(_, _)
Join(q, sep) == IF q = <<>> THEN <<>> ELSE IF Len(q) = 1 THEN q[1] ELSE q[1] \o sep \o Join(Tail(q), sep)

\* parseFloat over the model's characters: leading whitespace is skipped and
\* the longest prefix of decimal digits is the number; NaN when there is none
RECURSIVE DigitsPrefix(_, _)
DigitsPrefix(s, acc) == IF s # <<>> /\ IsDigit(Head(s)) THEN DigitsPrefix(Tail(s), acc * 10 + DigitVal(Head(s))) ELSE acc

NaN == [js |-> "NaN"]

parseFloat(s) == LET u == TrimStart(s) IN IF u # <<>> /\ IsDigit(u[1]) THEN N(DigitsPrefix(u, 0) * Scale) ELSE NaN

\* Number.prototype.toString for a non-negative number of ten-thousandths
RECURSIVE NatToStr(_)
NatToStr(n) == IF n < 10 THEN <<Digits[n + 1]>> ELSE Append(NatToStr(n \div 10), Digits[(n % 10) + 1])

RECURSIVE FracDigits(_, _)
FracDigits(f, width) == IF f = 0 THEN <<>> ELSE <<Digits[(f \div width) + 1]>> \o FracDigits((f % width) * 10, width)

NumToStr(k) == LET whole == k \div Scale
                   frac == k % Scale
               IN IF frac = 0 THEN NatToStr(whole) ELSE NatToStr(whole) \o <<".">> \o FracDigits(frac, Scale \div 10)

\* cell.toString() / string concatenation of a cell
CellToStr(cell) == IF cell.t = "n" THEN NumToStr(cell.v) ELSE cell.v

\* ------------------------------------------------------------------------
\* parseCSVLine (lines 158-181)
\* ------------------------------------------------------------------------
RECURSIVE ScanLine(_, _, _, _, _)
ScanLine(line, i, inQuotes, currentField, result) ==
    IF i > Len(line) THEN Append(result, S(Trim(currentField)))
    ELSE IF line[i] = "\"" THEN ScanLine(line, i + 1, ~inQuotes, currentField, result)
    ELSE IF line[i] = "," /\ ~inQuotes THEN ScanLine(line, i + 1, inQuotes, <<>>, Append(result, S(Trim(currentField))))
    ELSE ScanLine(line, i + 1, inQuotes, Append(currentField, line[i]), result)

parseCSVLine(line) == ScanLine(line, 1, FALSE, <<>>, <<>>)

\* ------------------------------------------------------------------------
\* parseCSV, the part that builds the dataset (lines 123-151)
\* ------------------------------------------------------------------------
UndefinedKey == <<"u", "n", "d", "e", "f", "i", "n", "e", "d">>

\* the property key an object is indexed with: String(value)
KeyOf(val) == IF val = Undefined THEN UndefinedKey ELSE CellToStr(val)

\* array[idx], 1-based here; undefined past the end
At(arr, idx) == IF idx \in 1..Len(arr) THEN arr[idx] ELSE Undefined

EmptyMap == [k \in {} |-> 0]

\* lines 145-148: create the counter when absent (or zero), then increment
CountMissing(mv, key) == [k \in (DOMAIN mv) \cup {key} |-> IF k = key THEN (IF key \in DOMAIN mv THEN mv[key] ELSE 0) + 1 ELSE mv[k]]

\* lines 143-150: values.forEach((val, idx) => ...)
RECURSIVE TrackRow(_, _, _, _)
TrackRow(mv, headers, values, idx) ==
    IF idx > Len(values) THEN mv
    ELSE IF values[idx] = EmptyStr THEN TrackRow(CountMissing(mv, KeyOf(At(headers, idx))), headers, values, idx + 1)
    ELSE TrackRow(mv, headers, values, idx + 1)

\* lines 138-151: for (let i = 1; i < lines.length; i++)
RECURSIVE ParseRows(_, _, _, _)
ParseRows(ds, lines, headers, i) ==
    IF i > Len(lines) THEN ds
    ELSE LET values == parseCSVLine(lines[i])
         IN ParseRows([ds EXCEPT !.rows = Append(@, values), !.stats.missingValues = TrackRow(@, headers, values, 1)], lines, headers, i + 1)

\* lines 125-151; lines[0] is undefined for content without a non-blank
\* line, and parseCSVLine(undefined) throws a TypeError at line 164
BuildDataset(content) ==
    LET lines == NonBlank(Split(content))
    IN IF lines = <<>> THEN [ok |-> FALSE]
       ELSE LET headers == parseCSVLine(lines[1])
                empty == [headers |-> headers, rows |-> <<>>, stats |-> [totalRows |-> Len(lines) - 1, missingValues |-> EmptyMap]]
            IN [ok |-> TRUE, dataset |-> ParseRows(empty, lines, headers, 2)]

\* ------------------------------------------------------------------------
\* processData (lines 274-380)
\* ------------------------------------------------------------------------
Methods == {"drop", "mean", "median", "mode", "knn"}

\* line 278: rows.map(row => [...row]) gives the result its own row arrays
RowsAreShared == FALSE

RowsAreCopied == TRUE

\* line 301: result.rows.map(row => row[colIndex]).filter(val => val !== '')
RECURSIVE ColumnValues(_, _)
ColumnValues(rows, colIndex) ==
    IF rows = <<>> THEN <<>>
    ELSE LET val == At(Head(rows), colIndex)
         IN IF val # EmptyStr THEN <<val>> \o ColumnValues(Tail(rows), colIndex) ELSE ColumnValues(Tail(rows), colIndex)

\* lines 309-312: parseFloat(undefined) is NaN, the value is kept as it is
ToNumeric(val) == IF val = Undefined THEN val ELSE IF parseFloat(val.v) = NaN THEN val ELSE parseFloat(val.v)

NumericValues(values) == [i \in 1..Len(values) |-> ToNumeric(values[i])]

\* line 314: typeof val === 'number'
IsNumber(val) == val # Undefined /\ val.t = "n"

IsNumeric(numericValues) == \A i \in 1..Len(numericValues) : IsNumber(numericValues[i])

RECURSIVE SumOf(_)
SumOf(nums) == IF nums = <<>> THEN 0 ELSE Head(nums).v + SumOf(Tail(nums))

\* lines 318-319, rounded as line 370 rounds it
MeanOf(nums) == N((2 * SumOf(nums) + Len(nums)) \div (2 * Len(nums)))

\* line 321: [...numericValues].sort((a, b) => a - b)
RECURSIVE InsertSorted(_, _)
InsertSorted(sorted, x) == IF sorted = <<>> THEN <<x>> ELSE IF x.v < Head(sorted).v THEN <<x>> \o sorted ELSE <<Head(sorted)>> \o InsertSorted(Tail(sorted), x)

RECURSIVE SortAsc(_)
SortAsc(nums) == IF nums = <<>> THEN <<>> ELSE InsertSorted(SortAsc(SubSeq(nums, 1, Len(nums) - 1)), nums[Len(nums)])

\* lines 321-323, rounded as line 370 rounds it
MedianOf(nums) ==
    LET sorted == SortAsc(nums)
        mid == (Len(sorted) \div 2) + 1
    IN IF Len(sorted) % 2 # 0 THEN sorted[mid] ELSE N((sorted[mid - 1].v + sorted[mid].v + 1) \div 2)

\* lines 333-336 and 351-354: the running maximum moves on a strictly
\* greater count only
ModeLastWins(count, max) == count >= max

ModeUpdates(count, max) == count > max

\* lines 326-339 and 344-357: the forEach over the collected values
RECURSIVE ModeScan(_, _, _, _, _)
ModeScan(vals, i, frequency, max, mode) ==
    IF i > Len(vals) THEN mode
    ELSE LET key == KeyOf(vals[i])
             count == (IF key \in DOMAIN frequency THEN frequency[key] ELSE 0) + 1
             freq2 == [k \in (DOMAIN frequency) \cup {key} |-> IF k = key THEN count ELSE frequency[k]]
         IN IF ModeUpdates(count, max) THEN ModeScan(vals, i + 1, freq2, count, vals[i]) ELSE ModeScan(vals, i + 1, freq2, max, mode)

ModeOf(vals) == ModeScan(vals, 1, EmptyMap, 0, vals[1])

\* lines 301-359: the fill value of one column; Undefined when none is set
FillValue(rows, colIndex, method) ==
    LET values == ColumnValues(rows, colIndex)
        numericValues == NumericValues(values)
    IN IF Len(values) = 0 THEN EmptyStr
       ELSE IF IsNumeric(numericValues)
            THEN CASE method = "mean" -> MeanOf(numericValues)
                   [] method = "median" -> MedianOf(numericValues)
                   [] method \in {"mode", "knn"} -> ModeOf(numericValues)
                   [] OTHER -> Undefined
            ELSE IF method \in {"mode", "knn"} THEN ModeOf(values) ELSE Undefined

\* lines 364-373 for one row
FillRow(row, fillValues) == [c \in 1..Len(row) |-> IF c <= Len(fillValues) /\ row[c] = EmptyStr /\ fillValues[c] # Undefined THEN fillValues[c] ELSE row[c]]

\* line 291: row.some(cell => cell === '')
HasMissing(row) == \E c \in 1..Len(row) : row[c] = EmptyStr

\* line 290: result.rows.filter(...)
RECURSIVE DropRows(_)
DropRows(rows) == IF rows = <<>> THEN <<>> ELSE IF HasMissing(Head(rows)) THEN DropRows(Tail(rows)) ELSE <<Head(rows)>> \o DropRows(Tail(rows))

\* processData(method) on the dataset d: `result` is the returned object,
\* `source` is what the object d refers to holds afterwards.  A TypeError is
\* thrown at line 277 when d is null.
processData(d, method) ==
    IF d = Null THEN [ok |-> FALSE, source |-> d]
    ELSE IF method = "drop"
         THEN LET kept == DropRows(d.rows)
              IN [ok |-> TRUE, source |-> d,
                  result |-> [headers |-> d.headers, rows |-> kept, stats |-> [totalRows |-> Len(kept), missingValues |-> d.stats.missingValues]]]
         ELSE LET fillValues == [c \in 1..Len(d.headers) |-> FillValue(d.rows, c, method)]
                  filled == [r \in 1..Len(d.rows) |-> FillRow(d.rows[r], fillValues)]
              IN [ok |-> TRUE, source |-> IF RowsAreCopied THEN d ELSE [d EXCEPT !.rows = filled],
                  result |-> [headers |-> d.headers, rows |-> filled, stats |-> [totalRows |-> d.stats.totalRows, missingValues |-> EmptyMap]]]

\* ------------------------------------------------------------------------
\* Rendering helpers
\* ------------------------------------------------------------------------
\* escapeHTML (lines 448-455)
EscapeChar(c) ==
    CASE c = "&" -> <<"&", "a", "m", "p", ";">>
      [] c = "<" -> <<"&", "l", "t", ";">>
      [] c = ">" -> <<"&", "g", "t", ";">>
      [] c = "\"" -> <<"&", "q", "u", "o", "t", ";">>
      [] c = "'" -> <<"&", "#", "0", "3", "9", ";">>
      [] OTHER -> <<c>>

RECURSIVE escapeHTML(_)
escapeHTML(str) == IF str = <<>> THEN <<>> ELSE EscapeChar(Head(str)) \o escapeHTML(Tail(str))

\* slice(0, n)
Slice(q, n) == SubSeq(q, 1, IF Len(q) < n THEN Len(q) ELSE n)

PreviewRows == 5
ResultRows == 10

\* innerHTML = ''
NoHTML == [html |-> "empty"]

\* displayPreview (lines 183-209): the table put into previewTable
displayPreview(d) ==
    [head |-> [c \in 1..Len(d.headers) |-> escapeHTML(CellToStr(d.headers[c]))],
     body |-> [r \in 1..Len(Slice(d.rows, PreviewRows)) |->
                 [c \in 1..Len(d.rows[r]) |-> IF d.rows[r][c] = EmptyStr THEN [missing |-> TRUE, text |-> <<"N", "a", "N">>] ELSE [missing |-> FALSE, text |-> escapeHTML(CellToStr(d.rows[r][c]))]]]]

\* ((missingCount / totalRows) * 100).toFixed(1), line 227
Percentage(missingCount, totalRows) ==
    IF totalRows = 0 THEN <<"N", "a", "N">>
    ELSE LET tenths == (2 * 1000 * missingCount + totalRows) \div (2 * totalRows)
         IN NatToStr(tenths \div 10) \o <<".">> \o NatToStr(tenths % 10)

\* missingStats[header] || 0, line 226
MissingCount(mv, header) == IF KeyOf(header) \in DOMAIN mv THEN mv[KeyOf(header)] ELSE 0

\* analyzeMissingValues (lines 211-241): the panel put into missingValues
analyzeMissingValues(d) ==
    [totalRows |-> d.stats.totalRows,
     totalColumns |-> Len(d.headers),
     items |-> [c \in 1..Len(d.headers) |->
                  [name |-> escapeHTML(CellToStr(d.headers[c])),
                   missingCount |-> MissingCount(d.stats.missingValues, d.headers[c]),
                   percentage |-> Percentage(MissingCount(d.stats.missingValues, d.headers[c]), d.stats.totalRows)]]]

\* displayResults (lines 382-406): the table put into resultTable
displayResults(d) ==
    [head |-> [c \in 1..Len(d.headers) |-> escapeHTML(CellToStr(d.headers[c]))],
     body |-> [r \in 1..Len(Slice(d.rows, ResultRows)) |-> [c \in 1..Len(d.rows[r]) |-> escapeHTML(CellToStr(d.rows[r][c]))]]]

\* field.replace(/"/g, '""'), line 416
RECURSIVE DoubleQuotes(_)
DoubleQuotes(str) == IF str = <<>> THEN <<>> ELSE (IF Head(str) = "\"" THEN <<"\"", "\"">> ELSE <<Head(str)>>) \o DoubleQuotes(Tail(str))

Includes(str, c) == \E i \in 1..Len(str) : str[i] = c

\* lines 413-419: one field of the exported text
CsvField(field) == IF field.t = "s" /\ (Includes(field.v, ",") \/ Includes(field.v, "\n")) THEN <<"\"">> \o DoubleQuotes(field.v) \o <<"\"">> ELSE CellToStr(field)

CsvLine(row) == Join([c \in 1..Len(row) |-> CsvField(row[c])], <<",">>) \o <<"\n">>

RECURSIVE CsvRows(_)
CsvRows(rows) == IF rows = <<>> THEN <<>> ELSE CsvLine(Head(rows)) \o CsvRows(Tail(rows))

\* lines 410-420: csvContent
CsvContent(d) == Join([c \in 1..Len(d.headers) |-> CellToStr(d.headers[c])], <<",">>) \o <<"\n">> \o CsvRows(d.rows)

\* ------------------------------------------------------------------------
\* File names
\* ------------------------------------------------------------------------
Lower(name) == [i \in 1..Len(name) |-> ToLower(name[i])]

EndsWith(str, suffix) == Len(str) >= Len(suffix) /\ SubSeq(str, Len(str) - Len(suffix) + 1, Len(str)) = suffix

\* name.match(/\.(csv|txt)$/i), line 95
IsCsvName(name) == EndsWith(Lower(name), <<".", "c", "s", "v">>) \/ EndsWith(Lower(name), <<".", "t", "x", "t">>)

\* the first index at which /(\.\w+)?$/ matches with a non-empty group; 0 if none
ExtensionStart(name) ==
    LET starts == {i \in 1..Len(name) : name[i] = "." /\ i < Len(name) /\ \A j \in (i + 1)..Len(name) : IsWordChar(name[j])}
    IN IF starts = {} THEN 0 ELSE CHOOSE i \in starts : \A j \in starts : i <= j

CleanedSuffix == <<"_", "c", "l", "e", "a", "n", "e", "d", ".", "c", "s", "v">>

\* name.replace(/(\.\w+)?$/, '_cleaned.csv'), line 426
DownloadName(name) == IF ExtensionStart(name) = 0 THEN name \o CleanedSuffix ELSE SubSeq(name, 1, ExtensionStart(name) - 1) \o CleanedSuffix

\* ------------------------------------------------------------------------
\* State
\* ------------------------------------------------------------------------
VARIABLES
    currentFile,      \* line 17
    dataset,          \* line 18
    cleanedDataset,   \* line 19
    reads,            \* FileReaders started at line 120 that have not called back
    timers,           \* callbacks queued by setTimeout at line 256, oldest first
    cleanBtnDisabled, \* cleanBtn.disabled
    loading,          \* loading.style.display
    optionsSection,   \* optionsSection.style.display
    resultSection,    \* resultSection.style.display
    previewTable,     \* previewTable.innerHTML
    missingValues,    \* missingValues.innerHTML
    resultTable,      \* resultTable.innerHTML
    downloadLink,     \* downloadLink.href (the text of the blob) and .download
    alertMsg          \* the alert() shown by the last handler, "" if none

vars == <<currentFile, dataset, cleanedDataset, reads, timers, cleanBtnDisabled, loading, optionsSection, resultSection, previewTable, missingValues, resultTable, downloadLink, alertMsg>>

\* everything a file upload leaves alone
uploadFrame == <<dataset, cleanedDataset, timers, cleanBtnDisabled, optionsSection, resultSection, previewTable, missingValues, resultTable, downloadLink>>

\* ------------------------------------------------------------------------
\* Files the user can supply
\* ------------------------------------------------------------------------
File(name, content) == [name |-> name, content |-> content]

\* a.csv: "n,t\n1,\n,x\n"
FileA == File(<<"a", ".", "c", "s", "v">>, <<"n", ",", "t", "\n", "1", ",", "\n", ",", "x", "\n">>)

\* b.TXT: "n\n2\n"
FileB == File(<<"b", ".", "T", "X", "T">>, <<"n", "\n", "2", "\n">>)

\* e.csv: a file of blank lines only
FileE == File(<<"e", ".", "c", "s", "v">>, <<" ", "\n", "\n">>)

\* p.pdf
FileP == File(<<"p", ".", "p", "d", "f">>, <<"n", "\n", "1", "\n">>)

Files == {FileA, FileB, FileE, FileP}

\* a FileList: no file (a drop that carries no file), one file, or two
FileLists == {<<>>} \cup {<<f>> : f \in Files} \cup {<<FileA, FileB>>}

MsgOneFile == "Please upload only one file at a time."
MsgCsvFile == "Please upload a CSV file."
MsgParse == "Error parsing file: "
MsgRead == "Error reading file"
MsgClean == "Error during cleaning: "

Init ==
    /\ currentFile = Null
    /\ dataset = Null
    /\ cleanedDataset = Null
    /\ reads = <<>>
    /\ timers = <<>>
    /\ cleanBtnDisabled = FALSE
    /\ loading = ""
    /\ optionsSection = ""
    /\ resultSection = ""
    /\ previewTable = NoHTML
    /\ missingValues = NoHTML
    /\ resultTable = NoHTML
    /\ downloadLink = [href |-> Null, download |-> Null]
    /\ alertMsg = ""

\* ------------------------------------------------------------------------
\* handleFiles (lines 86-121), called with the FileList of a drop (lines
\* 80-84) or of the file input (lines 44-48, never empty there)
\* ------------------------------------------------------------------------
handleFiles(files) ==
    IF Len(files) > 1
    THEN \* lines 87-90
         /\ alertMsg' = MsgOneFile
         /\ UNCHANGED <<currentFile, reads, loading>>
         /\ UNCHANGED uploadFrame
    ELSE /\ currentFile' = At(files, 1)
         /\ UNCHANGED uploadFrame
         /\ IF files = <<>>
            THEN \* line 95 reads .name of undefined: a TypeError ends the handler
                 /\ alertMsg' = ""
                 /\ UNCHANGED <<reads, loading>>
            ELSE IF ~IsCsvName(files[1].name)
            THEN \* lines 95-98
                 /\ alertMsg' = MsgCsvFile
                 /\ UNCHANGED <<reads, loading>>
            ELSE \* lines 100-120
                 /\ Len(reads) < MaxReads
                 /\ loading' = "block"
                 /\ reads' = Append(reads, [file |-> files[1]])
                 /\ alertMsg' = ""

RemoveAt(q, i) == SubSeq(q, 1, i - 1) \o SubSeq(q, i + 1, Len(q))

\* reader.onload (lines 104-113) with parseCSV (lines 123-156)
readerOnload(i) ==
    /\ i \in 1..Len(reads)
    /\ reads' = RemoveAt(reads, i)
    /\ LET parsed == BuildDataset(reads[i].file.content)
       IN IF parsed.ok
          THEN /\ dataset' = parsed.dataset
               /\ previewTable' = displayPreview(parsed.dataset)
               /\ missingValues' = analyzeMissingValues(parsed.dataset)
               /\ optionsSection' = "block"
               /\ alertMsg' = ""
          ELSE /\ alertMsg' = MsgParse
               /\ UNCHANGED <<dataset, previewTable, missingValues, optionsSection>>
    /\ loading' = "none"
    /\ UNCHANGED <<currentFile, cleanedDataset, timers, cleanBtnDisabled, resultSection, resultTable, downloadLink>>

\* reader.onerror (lines 115-118)
readerOnerror(i) ==
    /\ i \in 1..Len(reads)
    /\ reads' = RemoveAt(reads, i)
    /\ loading' = "none"
    /\ alertMsg' = MsgRead
    /\ UNCHANGED <<currentFile, dataset, cleanedDataset, timers, cleanBtnDisabled, optionsSection, resultSection, previewTable, missingValues, resultTable, downloadLink>>

\* ------------------------------------------------------------------------
\* cleanData (lines 243-272)
\* ------------------------------------------------------------------------
\* line 253: cleanBtn.disabled = true
DisabledNotSet == FALSE

DisabledWhileQueued == TRUE

\* the click listener of cleanBtn; a disabled button receives no click.
\* method is the value of the checked radio button (line 244); knnNeighbors
\* (lines 245-250) is passed on but processData never reads it.
cleanData(method) ==
    /\ ~cleanBtnDisabled
    /\ Len(timers) < MaxTimers
    /\ loading' = "block"
    /\ cleanBtnDisabled' = DisabledWhileQueued
    /\ timers' = Append(timers, method)
    /\ alertMsg' = ""
    /\ UNCHANGED <<currentFile, dataset, cleanedDataset, reads, optionsSection, resultSection, previewTable, missingValues, resultTable, downloadLink>>

\* the callback of setTimeout (lines 256-271), with displayResults and
\* prepareDownload (lines 408-427); line 426 throws a TypeError when
\* currentFile is null or undefined, after line 425 has set href
cleanCallback ==
    /\ timers # <<>>
    /\ timers' = Tail(timers)
    /\ LET r == processData(dataset, Head(timers))
       IN /\ dataset' = r.source
          /\ IF ~r.ok
             THEN /\ alertMsg' = MsgClean
                  /\ UNCHANGED <<cleanedDataset, resultTable, downloadLink, optionsSection, resultSection>>
             ELSE /\ cleanedDataset' = r.result
                  /\ resultTable' = displayResults(r.result)
                  /\ IF currentFile \in {Null, Undefined}
                     THEN /\ downloadLink' = [downloadLink EXCEPT !.href = CsvContent(r.result)]
                          /\ alertMsg' = MsgClean
                          /\ UNCHANGED <<optionsSection, resultSection>>
                     ELSE /\ downloadLink' = [href |-> CsvContent(r.result), download |-> DownloadName(currentFile.name)]
                          /\ optionsSection' = "none"
                          /\ resultSection' = "block"
                          /\ alertMsg' = ""
    /\ loading' = "none"
    /\ cleanBtnDisabled' = FALSE
    /\ UNCHANGED <<currentFile, reads, previewTable, missingValues>>

\* ------------------------------------------------------------------------
\* resetApplication (lines 429-442)
\* ------------------------------------------------------------------------
resetKeepsCleaned ==
    /\ optionsSection' = "none"
    /\ resultSection' = "none"
    /\ previewTable' = NoHTML
    /\ missingValues' = NoHTML
    /\ resultTable' = NoHTML
    /\ currentFile' = Null
    /\ dataset' = Null
    /\ alertMsg' = ""
    /\ UNCHANGED <<cleanedDataset, reads, timers, cleanBtnDisabled, loading, downloadLink>>

resetApplication ==
    /\ optionsSection' = "none"
    /\ resultSection' = "none"
    /\ previewTable' = NoHTML
    /\ missingValues' = NoHTML
    /\ resultTable' = NoHTML
    /\ currentFile' = Null
    /\ dataset' = Null
    /\ cleanedDataset' = Null
    /\ alertMsg' = ""
    /\ UNCHANGED <<reads, timers, cleanBtnDisabled, loading, downloadLink>>

\* ------------------------------------------------------------------------
\* The application
\* ------------------------------------------------------------------------
Next ==
    \/ \E files \in FileLists : handleFiles(files)
    \/ \E i \in 1..MaxReads : readerOnload(i)
    \/ \E i \in 1..MaxReads : readerOnerror(i)
    \/ \E method \in Methods : cleanData(method)
    \/ cleanCallback
    \/ resetApplication

Spec == Init /\ [][Next]_vars

\* the event loop runs the oldest queued timer callback; cleanCallback is
\* the only step that takes the head off timers
timerFires == timers # <<>> /\ timers' = Tail(timers)

\* the application with one file that loads, one that fails to parse and
\* drops that carry no file
GateFileLists == {<<>>, <<FileA>>, <<FileE>>}

NextGate ==
    \/ \E files \in GateFileLists : handleFiles(files)
    \/ \E i \in 1..MaxReads : readerOnload(i)
    \/ \E i \in 1..MaxReads : readerOnerror(i)
    \/ \E method \in Methods : cleanData(method)
    \/ cleanCallback
    \/ resetApplication

\* a queued timer callback is eventually run
FairSpec == Init /\ [][NextGate]_vars /\ WF_timers(timerFires)

\* ------------------------------------------------------------------------
\* The table functions over a bounded universe of files
\* ------------------------------------------------------------------------
RECURSIVE SeqsUpTo(_, _)
SeqsUpTo(set, n) == IF n = 0 THEN {<<>>} ELSE LET shorter == SeqsUpTo(set, n - 1) IN shorter \cup {Append(q, x) : q \in shorter, x \in set}

NonEmptySeqsUpTo(set, n) == SeqsUpTo(set, n) \ {<<>>}

\* a header of one or two columns, the names not necessarily distinct
HeaderLines == {Join(h, <<",">>) : h \in NonEmptySeqsUpTo({<<"a">>, <<"b">>}, 2)}

\* a row of one or two fields; a field is empty, a number or a word
RowLines == {Join(r, <<",">>) : r \in NonEmptySeqsUpTo({<<>>, <<"1">>, <<"x">>}, 2)}

TextOf(header, rows) == Join(<<header>> \o rows, <<"\n">>)

TableName == <<"t", ".", "c", "s", "v">>

TableFiles == {File(TableName, TextOf(h, rows)) : h \in HeaderLines, rows \in SeqsUpTo(RowLines, MaxRows)}

\* one column of up to MaxModeRows values; the empty value is written ""
\* because a line that is blank is not a row
ModeFiles == {File(TableName, TextOf(<<"a">>, rows)) : rows \in SeqsUpTo({<<"\"", "\"">>, <<"1">>, <<"2">>, <<"x">>}, MaxModeRows)}

\* files with an accepted name and no non-blank line
BlankFiles == {File(TableName, text) : text \in SeqsUpTo({" ", "\n"}, MaxBlank)}

\* the state in which the file f has been handed to handleFiles and is being read
Uploaded(f) ==
    /\ currentFile = f
    /\ dataset = Null
    /\ cleanedDataset = Null
    /\ reads = <<[file |-> f]>>
    /\ timers = <<>>
    /\ cleanBtnDisabled = FALSE
    /\ loading = "block"
    /\ optionsSection = ""
    /\ resultSection = ""
    /\ previewTable = NoHTML
    /\ missingValues = NoHTML
    /\ resultTable = NoHTML
    /\ downloadLink = [href |-> Null, download |-> Null]
    /\ alertMsg = ""

NextClean ==
    \/ readerOnload(1)
    \/ \E method \in Methods : cleanData(method)
    \/ cleanCallback

InitTable == \E f \in TableFiles : Uploaded(f)

SpecTable == InitTable /\ [][NextClean]_vars

InitMode == \E f \in ModeFiles : Uploaded(f)

SpecMode == InitMode /\ [][NextClean]_vars

\* only files without a header line are supplied, and every read succeeds
NextBlank ==
    \/ \E f \in BlankFiles : handleFiles(<<f>>)
    \/ \E i \in 1..MaxReads : readerOnload(i)
    \/ \E method \in Methods : cleanData(method)
    \/ cleanCallback
    \/ resetApplication

SpecBlank == Init /\ [][NextBlank]_vars

\* ------------------------------------------------------------------------
\* Properties
\* ------------------------------------------------------------------------
IsFile(f) == f # Null /\ f # Undefined

\* C1: an upload rejected as a user-input error (more than one file, or a
\* name that is not .csv/.txt) leaves currentFile, dataset and
\* cleanedDataset as they were.
C1_RejectedUploadChangesNothing == [][alertMsg' \in {MsgOneFile, MsgCsvFile} => UNCHANGED <<currentFile, dataset, cleanedDataset>>]_vars

\* C2: when the delayed clean callback throws, cleanedDataset, the rendered
\* result and the visibility of the two sections are what they were before,
\* and the clean button is enabled again.
C2_FailedCleanRestores ==
    [][(Len(timers') < Len(timers) /\ alertMsg' = MsgClean)
         => /\ UNCHANGED <<cleanedDataset, resultTable, optionsSection, resultSection>>
            /\ ~cleanBtnDisabled']_vars

\* C3: with nothing loaded before, a file without a header line fails to
\* parse with a message, and once that read is over currentFile, dataset and
\* cleanedDataset are again what they were before the file was submitted.
C3_ParseFailureLeavesState == (alertMsg = MsgParse /\ reads = <<>>) => (currentFile = Null /\ dataset = Null /\ cleanedDataset = Null)

\* C4: the clean button is disabled exactly while a clean callback is queued,
\* at most one callback is ever queued, and every queued clean ends with the
\* button enabled and the loading indicator hidden.
C4_CleanGate ==
    /\ [](Len(timers) <= 1 /\ (cleanBtnDisabled <=> timers # <<>>))
    /\ ((timers # <<>>) ~> (~cleanBtnDisabled /\ loading = "none"))

\* the gate has been released by a callback that threw
C4_Witness == alertMsg = MsgClean /\ timers = <<>> /\ ~cleanBtnDisabled /\ loading = "none" /\ dataset # Null

EmptyInColumn(rows, c) == Cardinality({r \in 1..Len(rows) : At(rows[r], c) = EmptyStr})

\* C6: in a parsed dataset missingValues[h], 0 when absent, is the number of
\* rows whose field at the column index of h is the empty string, and
\* totalRows is the number of rows.
C6_MissingCounts ==
    dataset # Null =>
        /\ dataset.stats.totalRows = Len(dataset.rows)
        /\ \A c \in 1..Len(dataset.headers) : MissingCount(dataset.stats.missingValues, dataset.headers[c]) = EmptyInColumn(dataset.rows, c)

\* C7: a cleaned dataset has no non-zero entry in missingValues, and its
\* totalRows is the number of its rows.
C7_CleanedStats ==
    cleanedDataset # Null =>
        /\ \A k \in DOMAIN cleanedDataset.stats.missingValues : cleanedDataset.stats.missingValues[k] = 0
        /\ cleanedDataset.stats.totalRows = Len(cleanedDataset.rows)

\* the list a column's fill value is computed from
Collected(rows, c) == IF IsNumeric(NumericValues(ColumnValues(rows, c))) THEN NumericValues(ColumnValues(rows, c)) ELSE ColumnValues(rows, c)

Occurrences(vals, v, upto) == Cardinality({j \in 1..upto : vals[j] = v})

MaxFrequency(vals) == CHOOSE n \in 1..Len(vals) : (\E i \in 1..Len(vals) : Occurrences(vals, vals[i], Len(vals)) = n) /\ (\A i \in 1..Len(vals) : Occurrences(vals, vals[i], Len(vals)) <= n)

Smallest(set) == CHOOSE i \in set : \A j \in set : i <= j

\* the most frequent value that occurs earliest in the list
EarliestMostFrequent(vals) == vals[Smallest({i \in 1..Len(vals) : Occurrences(vals, vals[i], Len(vals)) = MaxFrequency(vals)})]

\* the most frequent value whose count reaches the maximum earliest
FirstToReachMax(vals) == vals[Smallest({i \in 1..Len(vals) : Occurrences(vals, vals[i], i) = MaxFrequency(vals)})]

Tied(vals) == Cardinality({vals[i] : i \in {i \in 1..Len(vals) : Occurrences(vals, vals[i], Len(vals)) = MaxFrequency(vals)}}) > 1

\* a clean with mode or knn is completing on a column with values
ModeCleanStep == timers # <<>> /\ Head(timers) \in {"mode", "knn"} /\ Len(timers') < Len(timers) /\ dataset # Null /\ ColumnValues(dataset.rows, 1) # <<>>

\* C8 as stated: mode and knn fill the empty fields of a column with the
\* most frequent value, and of several most frequent values with the one
\* that occurs earliest.
C8_EarliestOccurrenceWins ==
    [][ModeCleanStep => \A r \in 1..Len(dataset.rows) : dataset.rows[r][1] = EmptyStr => cleanedDataset'.rows[r][1] = EarliestMostFrequent(Collected(dataset.rows, 1))]_vars

\* C8 as amended: mode and knn fill the empty fields of a column with the
\* most frequent value, and of several most frequent values with the one
\* whose count reaches the maximum first in row order.
C8_FirstToReachMaxWins ==
    [][ModeCleanStep => \A r \in 1..Len(dataset.rows) : dataset.rows[r][1] = EmptyStr => cleanedDataset'.rows[r][1] = FirstToReachMax(Collected(dataset.rows, 1))]_vars

\* an empty field was filled where the two rules name different values
C8_Witness ==
    /\ dataset # Null /\ cleanedDataset # Null /\ timers = <<>>
    /\ ColumnValues(dataset.rows, 1) # <<>>
    /\ Tied(Collected(dataset.rows, 1))
    /\ FirstToReachMax(Collected(dataset.rows, 1)) # EarliestMostFrequent(Collected(dataset.rows, 1))
    /\ \E r \in 1..Len(dataset.rows) : dataset.rows[r][1] = EmptyStr /\ cleanedDataset.rows[r][1] = FirstToReachMax(Collected(dataset.rows, 1))

IsCleanOf(cleaned, d) == d # Null /\ \E method \in Methods : cleaned = processData(d, method).result

\* C9 as stated: a cleaned dataset is always the result of cleaning the
\* dataset currently held.
C9_CleanedOfCurrent == cleanedDataset # Null => IsCleanOf(cleanedDataset, dataset)

\* C9 as amended: there is no cleaned dataset while no dataset is held, and
\* cleanedDataset changes only to null or, in a clean callback, to the
\* result of cleaning the dataset held at that moment with the method the
\* clean was triggered with.
C9_CleanedOfDatasetAtCallback ==
    /\ [](dataset = Null => cleanedDataset = Null)
    /\ [][cleanedDataset' # cleanedDataset => (cleanedDataset' = Null \/ (timers # <<>> /\ dataset # Null /\ cleanedDataset' = processData(dataset, Head(timers)).result))]_vars

\* a new file has been loaded over the cleaned result of an earlier one
C9_Witness == cleanedDataset # Null /\ dataset # Null /\ ~IsCleanOf(cleanedDataset, dataset)

\* C10: once no read is in flight, a dataset is the parse of the content of
\* currentFile.
C10_DatasetOfCurrentFile ==
    (reads = <<>> /\ dataset # Null) => (IsFile(currentFile) /\ BuildDataset(currentFile.content).ok /\ dataset = BuildDataset(currentFile.content).dataset)

====
